---- MODULE Spec2Model ----
(***************************************************************************)
(* Model of shard's attack runner (package attack, Runner.Run): the        *)
(* fixed-rate scheduler, the worker pool, the writer/progress goroutine    *)
(* (the Sink) and the shutdown sequence, with Go's channel semantics:      *)
(* a buffered channel is a bounded FIFO, an unbuffered one a rendezvous,   *)
(* a select with several ready cases takes any of them, a time.Ticker      *)
(* delivers through a one-slot channel and drops a tick it cannot deliver. *)
(***************************************************************************)
EXTENDS Integers, Sequences, FiniteSets

\* ---------------------------------------------------------------- bounds
\* Ticker periods that elapse in one run of the concurrent model.
MaxTicks == 4
\* Periodic progress lines the Sink's own ticker produces in one run.
MaxSnaps == 1
\* The ticket queue of the timed scheduler model: large enough that no
\* enqueue ever waits (no backpressure).
RateQueue == 40

\* ------------------------------------------------------ program constants
\* time.Second, in nanoseconds (time.Duration's unit).
Second == 1000000000

\* The values cfg.Load.QueueSize is drawn from (0: an unbuffered channel).
QueueSizes == {0, 1}
\* How a target answers: "up" answers every request, "down" refuses every
\* connection, "flaky" refuses every second request. The concurrent runs are
\* driven against the target that produces both outcomes.
Targets == {"flaky"}

\* The values cfg.Load.Concurrency is drawn from (Validate: > 0).
Concurrencies == {1, 2}

\* The worker ids any run uses (the id of go func(id int)).
Workers == UNION {1..c : c \in Concurrencies}
TicketIds == 0..(MaxTicks - 1)

VARIABLES
    pc,            \* Runner.Run's position
    err,           \* Run's return value: "none" while running
    queueSize,     \* cfg.Load.QueueSize
    concurrency,   \* cfg.Load.Concurrency
    workCh,        \* the ticket queue's buffer
    workClosed,    \* close(workCh) has run
    results,       \* the results channel's buffer
    resultsClosed, \* close(results) has run
    wpc,           \* each worker goroutine's position
    wres,          \* the ticket / Result a worker holds
    ctxDone,       \* ctx.Done() is closed
    stopFired,     \* the time.After(duration) channel holds its value
    tickerC,       \* values waiting in the scheduler's ticker.C (0 or 1)
    periods,       \* ticker periods elapsed since time.NewTicker
    count,         \* the scheduler's count
    spc,           \* the Sink goroutine's position
    outFile,       \* the results file: "unopened", "open", "closed"
    outLines,      \* the records encoded into the results file
    progFile,      \* progress.log: "unopened", "open", "closed"
    progLines,     \* the lines written to progress.log
    stats,         \* the StatsCollector's counters
    pulls,         \* per ticket: how many times a worker dequeued it
    made,          \* per ticket: how many Results doRequest produced for it
    pushed,        \* the Results the results channel accepted, in order
    now,           \* the clock, in nanoseconds since the ticker was made
    rate,          \* cfg.Load.Rate
    duration,      \* cfg.Load.Duration, in nanoseconds
    target,        \* how the target answers (the shared client's peer)
    coll,          \* a StatsCollector shared by concurrent Add callers
    heap,          \* the int64 cells allocated by new(int64), by allocator
    adders,        \* each Add call: its position, Result and loaded pointer
    raced,         \* two Adds met at the first insert of the same tag
    rq,            \* one doRequest call: position, clock, trace, Result
    cli            \* runAttack: the config read, Validate's verdict, the ticker

vars == <<pc, err, queueSize, concurrency, workCh, workClosed, results, resultsClosed,
          wpc, wres, ctxDone, stopFired, tickerC, periods, count, spc,
          outFile, outLines, progFile, progLines, stats, pulls, made,
          pushed, now, rate, duration, target, coll, heap, adders, raced, rq, cli>>

runVars == <<pc, err>>
chanVars == <<workCh, workClosed, results, resultsClosed>>
workerVars == <<wpc, wres, pulls, made, pushed>>
timeVars == <<stopFired, tickerC, periods, now>>
sinkVars == <<spc, outLines, progLines, stats>>
fileVars == <<outFile, progFile>>
cfgVars == <<queueSize, concurrency, rate, duration, target>>
aggVars == <<coll, heap, adders, raced>>
auxVars == <<aggVars, rq, cli>>
runnerVars == <<runVars, chanVars, workerVars, timeVars, sinkVars, fileVars,
                cfgVars, ctxDone, count>>

\* A plausible slip in the start loop: i <= concurrency.
PoolOffByOne == {w \in Workers : w <= concurrency + 1}

\* The workers Run starts: for i := 0; i < concurrency; i++.
Pool == {w \in Workers : w <= concurrency}
\* results := make(chan Result, concurrency*2)
ResultsCap == concurrency * 2

\* A Result, as far as the runner and the aggregator read it: the ticket it
\* answers and whether Error is non-empty.
Result(id, failed) == [id |-> id, failed |-> failed]

\* Whether r.client.Do(req) returns an error for the request of ticket id.
DoFails(tgt, id) ==
    CASE tgt = "up" -> FALSE
      [] tgt = "down" -> TRUE
      [] OTHER -> id % 2 = 1

\* A plausible slip in Add: the error branch returns before counting the
\* failure.
StatsAddNoFail(s, r) ==
    IF r.failed
    THEN [s EXCEPT !.sent = @ + 1]
    ELSE [s EXCEPT !.sent = @ + 1, !.success = @ + 1]

\* StatsCollector.Add, its sent / success / fail counters.
StatsAdd(s, r) ==
    IF r.failed
    THEN [s EXCEPT !.sent = @ + 1, !.fail = @ + 1]
    ELSE [s EXCEPT !.sent = @ + 1, !.success = @ + 1]

\* printStats: stats.Snapshot() and the progress line built from it.
PrintStats(s) ==
    [kind |-> "stats", sent |-> s.sent, success |-> s.success, fail |-> s.fail]

\* fmt.Fprintln(progressFile, "---- Test completed ----")
TestCompleted == [kind |-> "completed"]

\* A write to an *os.File: it lands while the file is open and fails
\* (the error is dropped) once the file is closed.
WriteTo(file, lines, line) == IF file = "open" THEN Append(lines, line) ELSE lines

\* ------------------------------------------- StatsCollector and doRequest
\* Number of goroutines calling StatsCollector.Add at once.
MaxAdders == 2
\* Largest advance of the clock between two trace events of one request.
MaxStep == 2
\* time.Millisecond, in nanoseconds.
Millisecond == 1000000

AdderIds == 1..MaxAdders

\* The labels classifyError returns.
Taxonomy == {"timeout", "dns", "connect", "tls", "ttfb", "other"}

\* The zero PhaseTimings and the zero Result.
ZeroPhases == [dns |-> 0, connect |-> 0, tls |-> 0, ttfb |-> 0, total |-> 0]
ZeroResult == [error |-> "", failPhase |-> "", code |-> 0, phases |-> ZeroPhases]

\* The Results Add is called with: Error, FailPhase, Code and Phases.Total
\* as doRequest fills them (a failed Result keeps Code 0 and its Total).
AddResults ==
    { [error |-> "", failPhase |-> "", code |-> c[1],
       phases |-> [ZeroPhases EXCEPT !.total = c[2]]] :
        c \in { <<200, 5500000>>, <<302, 7000000>>, <<404, 1200000>>,
                <<503, 2900000>>, <<101, 1000000>> } }
    \cup
    { [error |-> g, failPhase |-> g, code |-> 0,
       phases |-> [ZeroPhases EXCEPT !.total = 9400000]] :
        g \in {"connect", "timeout"} }

\* The zero StatsCollector: every counter 0, failMap empty (0: no entry).
NewCollector ==
    [sent |-> 0, success |-> 0, fail |-> 0, totalLat |-> 0,
     twoXX |-> 0, threeXX |-> 0, fourXX |-> 0, fiveXX |-> 0,
     failMap |-> [g \in Taxonomy |-> 0]]

\* A net error as classifyError sees it: whether os.IsTimeout holds and
\* which of the searched substrings its message contains.
NoError == [timeout |-> FALSE, text |-> {}]

\* No doRequest call is running.
IdleRequest ==
    [pc |-> "idle", t |-> 0, phases |-> ZeroPhases, url |-> {},
     kind |-> "none", e |-> NoError, status |-> 0, res |-> ZeroResult]

\* runAttack has read no configuration.
IdleCli ==
    [pc |-> "idle",
     cfg |-> [url |-> "", rate |-> 0, concurrency |-> 0,
              duration |-> "", timeout |-> ""],
     err |-> "none", interval |-> 0]

\* Nothing outside the Runner is active.
AuxIdle ==
    /\ coll = NewCollector
    /\ heap = [a \in AdderIds |-> 0]
    /\ adders = [a \in AdderIds |-> [pc |-> "idle", r |-> ZeroResult, ptr |-> 0]]
    /\ raced = FALSE
    /\ rq = IdleRequest
    /\ cli = IdleCli

\* ------------------------------------------------------------------ Init
RunnerInit ==
    /\ pc = "start"
    /\ err = "none"
    /\ queueSize \in QueueSizes
    /\ concurrency \in Concurrencies
    /\ workCh = <<>>
    /\ workClosed = FALSE
    /\ results = <<>>
    /\ resultsClosed = FALSE
    /\ wpc = [w \in Workers |-> "idle"]
    /\ wres = [w \in Workers |-> Result(0, FALSE)]
    /\ ctxDone = FALSE
    /\ stopFired = FALSE
    /\ tickerC = 0
    /\ periods = 0
    /\ count = 0
    /\ spc = "off"
    /\ outFile = "unopened"
    /\ outLines = <<>>
    /\ progFile = "unopened"
    /\ progLines = <<>>
    /\ stats = [sent |-> 0, success |-> 0, fail |-> 0]
    /\ pulls = [t \in TicketIds |-> 0]
    /\ made = [t \in TicketIds |-> 0]
    /\ pushed = <<>>
    /\ now = 0
    /\ rate = 1
    /\ duration = Second
    /\ target \in Targets

Init == RunnerInit /\ AuxIdle

\* ------------------------------------------------------------ Runner.Run
\* req, err := r.makeRequest(); an error returns before anything starts.
MakeRequest ==
    /\ pc = "start"
    /\ \/ /\ pc' = "spawn"
          /\ err' = err
       \/ /\ pc' = "returned"
          /\ err' = "make request"
    /\ UNCHANGED <<auxVars, chanVars, workerVars, timeVars, sinkVars, fileVars,
                   cfgVars, ctxDone, count>>

\* for i := 0; i < concurrency; i++ { wg.Add(1); go func ... }
StartWorkers ==
    /\ pc = "spawn"
    /\ wpc' = [w \in Workers |-> IF w \in Pool THEN "pull" ELSE "idle"]
    /\ pc' = "openOut"
    /\ UNCHANGED <<auxVars, err, chanVars, wres, pulls, made, pushed, timeVars,
                   sinkVars, fileVars, cfgVars, ctxDone, count>>

\* outFile, err := os.Create(outPath)
OpenOut ==
    /\ pc = "openOut"
    /\ \/ /\ outFile' = "open"
          /\ pc' = "openProgress"
          /\ err' = err
       \/ /\ outFile' = outFile
          /\ pc' = "returned"
          /\ err' = "open output"
    /\ UNCHANGED <<auxVars, chanVars, workerVars, timeVars, sinkVars, progFile,
                   cfgVars, ctxDone, count>>

\* progressFile, err := os.Create("progress.log"); on error the deferred
\* outFile.Close() runs.
OpenProgress ==
    /\ pc = "openProgress"
    /\ \/ /\ progFile' = "open"
          /\ outFile' = outFile
          /\ pc' = "startSink"
          /\ err' = err
       \/ /\ progFile' = progFile
          /\ outFile' = "closed"
          /\ pc' = "returned"
          /\ err' = "open progress log"
    /\ UNCHANGED <<auxVars, chanVars, workerVars, timeVars, sinkVars, cfgVars,
                   ctxDone, count>>

\* go func() { ... }() for the Sink, then time.NewTicker(interval),
\* time.After(duration) and count := 0.
StartSink ==
    /\ pc = "startSink"
    /\ spc' = "loop"
    /\ pc' = "outer"
    /\ count' = 0
    /\ UNCHANGED <<auxVars, err, chanVars, workerVars, timeVars, outLines, progLines,
                   stats, fileVars, cfgVars, ctxDone>>

\* select { case <-stop: break loop ... }
SchedStop ==
    /\ pc = "outer"
    /\ stopFired
    /\ pc' = "close"
    /\ UNCHANGED <<auxVars, err, chanVars, workerVars, timeVars, sinkVars, fileVars,
                   cfgVars, ctxDone, count>>

\* select { ... case <-ticker.C: ... }
SchedTick ==
    /\ pc = "outer"
    /\ tickerC > 0
    /\ tickerC' = tickerC - 1
    /\ pc' = "inner"
    /\ UNCHANGED <<auxVars, err, chanVars, workerVars, stopFired, periods, now,
                   sinkVars, fileVars, cfgVars, ctxDone, count>>

\* case workCh <- count: count++ -- the buffer has room.
SchedSend ==
    /\ pc = "inner"
    /\ Len(workCh) < queueSize
    /\ workCh' = Append(workCh, count)
    /\ count' = count + 1
    /\ pc' = "outer"
    /\ UNCHANGED <<auxVars, err, workClosed, results, resultsClosed, workerVars,
                   timeVars, sinkVars, fileVars, cfgVars, ctxDone>>

\* A plausible slip on the cancellation path: leaving the loop past the
\* close(workCh).
SchedCancelSkipClose ==
    /\ pc = "inner"
    /\ ctxDone
    /\ pc' = "wait"
    /\ UNCHANGED <<auxVars, err, chanVars, workerVars, timeVars, sinkVars, fileVars,
                   cfgVars, ctxDone, count>>

\* A plausible slip on the cancellation path: the aborted attempt still
\* takes its sequence number.
SchedCancelCounts ==
    /\ pc = "inner"
    /\ ctxDone
    /\ count' = count + 1
    /\ pc' = "close"
    /\ UNCHANGED <<auxVars, err, chanVars, workerVars, timeVars, sinkVars, fileVars,
                   cfgVars, ctxDone>>

\* case <-ctx.Done(): break loop
SchedCancel ==
    /\ pc = "inner"
    /\ ctxDone
    /\ pc' = "close"
    /\ UNCHANGED <<auxVars, err, chanVars, workerVars, timeVars, sinkVars, fileVars,
                   cfgVars, ctxDone, count>>

\* close(workCh)
CloseWork ==
    /\ pc = "close"
    /\ workClosed' = TRUE
    /\ pc' = "wait"
    /\ UNCHANGED <<auxVars, err, workCh, results, resultsClosed, workerVars, timeVars,
                   sinkVars, fileVars, cfgVars, ctxDone, count>>

\* A plausible slip in the shutdown sequence: no wg.Wait() before
\* close(results).
WaitWorkersNoJoin ==
    /\ pc = "wait"
    /\ pc' = "closeResults"
    /\ UNCHANGED <<auxVars, err, chanVars, workerVars, timeVars, sinkVars, fileVars,
                   cfgVars, ctxDone, count>>

\* wg.Wait()
WaitWorkers ==
    /\ pc = "wait"
    /\ \A w \in Pool : wpc[w] = "exited"
    /\ pc' = "closeResults"
    /\ UNCHANGED <<auxVars, err, chanVars, workerVars, timeVars, sinkVars, fileVars,
                   cfgVars, ctxDone, count>>

\* close(results)
CloseResults ==
    /\ pc = "closeResults"
    /\ resultsClosed' = TRUE
    /\ pc' = "return"
    /\ UNCHANGED <<auxVars, err, workCh, workClosed, results, workerVars, timeVars,
                   sinkVars, fileVars, cfgVars, ctxDone, count>>

\* return nil, with the deferred ticker.Stop(), progressFile.Close() and
\* outFile.Close().
Return ==
    /\ pc = "return"
    /\ progFile' = "closed"
    /\ outFile' = "closed"
    /\ err' = "nil"
    /\ pc' = "returned"
    /\ UNCHANGED <<auxVars, chanVars, workerVars, timeVars, sinkVars, cfgVars,
                   ctxDone, count>>

\* --------------------------------------------------------------- workers
\* for range workCh: a ticket is in the buffer; doRequest(req) begins.
WorkerPull(w) ==
    /\ wpc[w] = "pull"
    /\ Len(workCh) > 0
    /\ workCh' = Tail(workCh)
    /\ wres' = [wres EXCEPT ![w] = Result(Head(workCh), FALSE)]
    /\ pulls' = [pulls EXCEPT ![Head(workCh)] = @ + 1]
    /\ wpc' = [wpc EXCEPT ![w] = "req"]
    /\ UNCHANGED <<auxVars, runVars, workClosed, results, resultsClosed, made, pushed,
                   timeVars, sinkVars, fileVars, cfgVars, ctxDone, count>>

\* case workCh <- count: count++ on an unbuffered queue: the send meets a
\* worker waiting in for range workCh.
SchedHandoff(w) ==
    /\ pc = "inner"
    /\ queueSize = 0
    /\ wpc[w] = "pull"
    /\ wres' = [wres EXCEPT ![w] = Result(count, FALSE)]
    /\ pulls' = [pulls EXCEPT ![count] = @ + 1]
    /\ wpc' = [wpc EXCEPT ![w] = "req"]
    /\ count' = count + 1
    /\ pc' = "outer"
    /\ UNCHANGED <<auxVars, err, chanVars, made, pushed, timeVars, sinkVars, fileVars,
                   cfgVars, ctxDone>>

\* A plausible slip in the worker: leaving as soon as the queue is closed,
\* with tickets still buffered.
WorkerExitEarly(w) ==
    /\ wpc[w] = "pull"
    /\ workClosed
    /\ wpc' = [wpc EXCEPT ![w] = "exited"]
    /\ UNCHANGED <<auxVars, runVars, chanVars, wres, pulls, made, pushed, timeVars,
                   sinkVars, fileVars, cfgVars, ctxDone, count>>

\* for range workCh ends: the queue is closed and drained; wg.Done().
WorkerExit(w) ==
    /\ wpc[w] = "pull"
    /\ workClosed
    /\ Len(workCh) = 0
    /\ wpc' = [wpc EXCEPT ![w] = "exited"]
    /\ UNCHANGED <<auxVars, runVars, chanVars, wres, pulls, made, pushed, timeVars,
                   sinkVars, fileVars, cfgVars, ctxDone, count>>

\* res := r.doRequest(req) returns, with or without an error.
WorkerReq(w) ==
    /\ wpc[w] = "req"
    /\ wres' = [wres EXCEPT ![w] = Result(wres[w].id, DoFails(target, wres[w].id))]
    /\ made' = [made EXCEPT ![wres[w].id] = @ + 1]
    /\ wpc' = [wpc EXCEPT ![w] = "push"]
    /\ UNCHANGED <<auxVars, runVars, chanVars, pulls, pushed, timeVars, sinkVars,
                   fileVars, cfgVars, ctxDone, count>>

\* select { case results <- res: ... }
WorkerSend(w) ==
    /\ wpc[w] = "push"
    /\ Len(results) < ResultsCap
    /\ results' = Append(results, wres[w])
    /\ pushed' = Append(pushed, wres[w])
    /\ wpc' = [wpc EXCEPT ![w] = "pull"]
    /\ UNCHANGED <<auxVars, runVars, workCh, workClosed, resultsClosed, wres, pulls,
                   made, timeVars, sinkVars, fileVars, cfgVars, ctxDone, count>>

\* select { ... case <-ctx.Done(): return }; wg.Done().
WorkerAbandon(w) ==
    /\ wpc[w] = "push"
    /\ ctxDone
    /\ wpc' = [wpc EXCEPT ![w] = "exited"]
    /\ UNCHANGED <<auxVars, runVars, chanVars, wres, pulls, made, pushed, timeVars,
                   sinkVars, fileVars, cfgVars, ctxDone, count>>

\* ------------------------------------------------------------------ Sink
\* case res, ok := <-results (ok): stats.Add(res); enc.Encode(res)
SinkRecv ==
    /\ spc = "loop"
    /\ Len(results) > 0
    /\ results' = Tail(results)
    /\ stats' = StatsAdd(stats, Head(results))
    /\ outLines' = WriteTo(outFile, outLines, Head(results))
    /\ UNCHANGED <<auxVars, runVars, workCh, workClosed, resultsClosed, workerVars,
                   timeVars, spc, progLines, fileVars, cfgVars, ctxDone, count>>

\* case res, ok := <-results (!ok): printStats, "Test completed", return
SinkClosed ==
    /\ spc = "loop"
    /\ Len(results) = 0
    /\ resultsClosed
    /\ progLines' = WriteTo(progFile, WriteTo(progFile, progLines, PrintStats(stats)),
                            TestCompleted)
    /\ spc' = "done"
    /\ UNCHANGED <<auxVars, runVars, chanVars, workerVars, timeVars, outLines, stats,
                   fileVars, cfgVars, ctxDone, count>>

\* case <-ticker.C: printStats(stats, start, progressFile)
SinkTick ==
    /\ spc = "loop"
    /\ Len(progLines) < MaxSnaps
    /\ progLines' = WriteTo(progFile, progLines, PrintStats(stats))
    /\ UNCHANGED <<auxVars, runVars, chanVars, workerVars, timeVars, spc, outLines,
                   stats, fileVars, cfgVars, ctxDone, count>>

\* ----------------------------------------------------------- environment
\* A ticker period elapses: the ticker puts a value into its one-slot
\* channel, or drops the tick when the slot is taken.
Tick ==
    /\ pc \in {"outer", "inner"}
    /\ periods < MaxTicks
    /\ periods' = periods + 1
    /\ tickerC' = IF tickerC = 0 THEN 1 ELSE tickerC
    /\ UNCHANGED <<auxVars, runVars, chanVars, workerVars, stopFired, now, sinkVars,
                   fileVars, cfgVars, ctxDone, count>>

\* The duration elapses: time.After's channel receives its value.
StopFire ==
    /\ pc \in {"outer", "inner"}
    /\ ~stopFired
    /\ stopFired' = TRUE
    /\ UNCHANGED <<auxVars, runVars, chanVars, workerVars, tickerC, periods, now,
                   sinkVars, fileVars, cfgVars, ctxDone, count>>

\* The caller cancels ctx (runAttack: an interrupt, then cancel()).
Cancel ==
    /\ ~ctxDone
    /\ ctxDone' = TRUE
    /\ UNCHANGED <<auxVars, runVars, chanVars, workerVars, timeVars, sinkVars,
                   fileVars, cfgVars, count>>

Next ==
    \/ MakeRequest
    \/ StartWorkers
    \/ OpenOut
    \/ OpenProgress
    \/ StartSink
    \/ SchedStop
    \/ SchedTick
    \/ SchedSend
    \/ SchedCancel
    \/ CloseWork
    \/ WaitWorkers
    \/ CloseResults
    \/ Return
    \/ \E w \in Pool : WorkerPull(w)
    \/ \E w \in Pool : SchedHandoff(w)
    \/ \E w \in Pool : WorkerExit(w)
    \/ \E w \in Pool : WorkerReq(w)
    \/ \E w \in Pool : WorkerSend(w)
    \/ \E w \in Pool : WorkerAbandon(w)
    \/ SinkRecv
    \/ SinkClosed
    \/ SinkTick
    \/ Tick
    \/ StopFire
    \/ Cancel

Spec == Init /\ [][Next]_vars

\* Every goroutine that can take a step eventually takes one, the timers
\* fire, and a select whose stop case stays ready eventually takes it.
FairSpec == Init /\ [][Next]_vars /\ WF_vars(Next) /\ SF_vars(SchedStop)

\* ------------------------------------------- the scheduler against a clock
\* The runs of the timed model: <<rate, duration in nanoseconds>>.
RateRuns ==
    {<<1, 2 * Second>>, <<2, 2 * Second>>, <<3, Second>>, <<7, Second>>,
     <<300000000, 100>>}

\* interval := time.Second / time.Duration(rate)
Interval(r) == Second \div r

\* The scheduler loop is reached with the workers and the Sink started and
\* both files open; the queue never fills.
InitRate ==
    /\ pc = "outer"
    /\ err = "none"
    /\ queueSize = RateQueue
    /\ concurrency \in Concurrencies
    /\ workCh = <<>>
    /\ workClosed = FALSE
    /\ results = <<>>
    /\ resultsClosed = FALSE
    /\ wpc = [w \in Workers |-> IF w \in Pool THEN "pull" ELSE "idle"]
    /\ wres = [w \in Workers |-> Result(0, FALSE)]
    /\ ctxDone = FALSE
    /\ stopFired = FALSE
    /\ tickerC = 0
    /\ periods = 0
    /\ count = 0
    /\ spc = "loop"
    /\ outFile = "open"
    /\ outLines = <<>>
    /\ progFile = "open"
    /\ progLines = <<>>
    /\ stats = [sent |-> 0, success |-> 0, fail |-> 0]
    /\ pulls = [t \in TicketIds |-> 0]
    /\ made = [t \in TicketIds |-> 0]
    /\ pushed = <<>>
    /\ now = 0
    /\ \E run \in RateRuns : rate = run[1] /\ duration = run[2]
    /\ target = "up"
    /\ AuxIdle

\* The scheduler waits in its outer select with nothing ready: the clock
\* moves to the next instant at which the ticker or the stop timer fires.
\* At an instant that is both, both channels become ready.
RateAdvance ==
    /\ pc = "outer"
    /\ tickerC = 0
    /\ ~stopFired
    /\ LET nextTick == (periods + 1) * Interval(rate)
           t == IF nextTick <= duration THEN nextTick ELSE duration
       IN /\ now' = t
          /\ periods' = IF nextTick = t THEN periods + 1 ELSE periods
          /\ tickerC' = IF nextTick = t THEN 1 ELSE tickerC
          /\ stopFired' = (duration = t)
    /\ UNCHANGED <<auxVars, runVars, chanVars, workerVars, sinkVars, fileVars,
                   cfgVars, ctxDone, count>>

NextRate ==
    \/ RateAdvance
    \/ SchedTick
    \/ SchedSend
    \/ SchedStop

SpecRate == InitRate /\ [][NextRate]_vars

\* ------------------------------------------------------------------ claims
RunReturnedNil == pc = "returned" /\ err = "nil"

\* C1: Run returns nil only after the Sink has seen the closed results
\* channel, taken its final snapshot and written the "Test completed" line.
C1_ReturnAfterFinalFlush ==
    RunReturnedNil =>
        /\ spc = "done"
        /\ Len(progLines) > 0
        /\ progLines[Len(progLines)] = TestCompleted

\* C2: when Run returns nil the results file holds exactly the Results the
\* results channel accepted, once each, in the order it accepted them.
C2_OutputComplete ==
    RunReturnedNil => (outLines = pushed /\ Len(results) = 0)

\* C3: when Run returns an error because a file could not be opened, no
\* worker goroutine is alive.
C3_NoWorkerOnOpenError ==
    (pc = "returned" /\ err \in {"open output", "open progress log"}) =>
        \A w \in Workers : wpc[w] \in {"idle", "exited"}

\* C4: no send on the ticket queue succeeds once ctx is cancelled.
C4_NoEnqueueAfterCancel ==
    [][count' > count => ~ctxDone]_vars

\* C5: no worker begins a doRequest once ctx is cancelled.
C5_NoRequestAfterCancel ==
    [][\A w \in Workers : (wpc[w] = "pull" /\ wpc'[w] = "req") => ~ctxDone]_vars

\* C6: a worker gives up the push of a Result only when ctx is cancelled
\* and the results channel cannot take the Result.
C6_AbandonOnlyWhenBlocked ==
    [][\A w \in Workers :
          (wpc[w] = "push" /\ wpc'[w] = "exited") =>
              (ctxDone /\ Len(results) >= ResultsCap)]_vars

\* C7: when Run returns nil every enqueued ticket has been dequeued exactly
\* once and has produced exactly one Result, and the ticket queue is empty.
C7_TicketsConsumedOnce ==
    RunReturnedNil =>
        /\ Len(workCh) = 0
        /\ \A t \in TicketIds :
              IF t < count THEN pulls[t] = 1 /\ made[t] = 1
                           ELSE pulls[t] = 0 /\ made[t] = 0

\* The scheduler's send on the ticket queue cannot proceed: the buffer is
\* full and no worker is waiting to receive.
SendBlocked ==
    /\ pc = "inner"
    /\ Len(workCh) >= queueSize
    /\ \A w \in Workers : wpc[w] # "pull"

\* C8: a ticker period that elapses while the scheduler is blocked on the
\* full ticket queue, before the duration expires and before cancellation,
\* is not lost: its tick waits in ticker.C for the scheduler.
C8_NoTickLost ==
    [][(SendBlocked /\ ~stopFired /\ ~ctxDone /\ periods' > periods) =>
          tickerC' = tickerC + 1]_vars

\* a / s with the powers of ten a and s share removed.
RECURSIVE Reduce(_, _)
Reduce(a, s) ==
    IF a % 10 = 0 /\ s % 10 = 0
    THEN Reduce(a \div 10, s \div 10)
    ELSE <<a, s>>

\* |n - r * d / Second| <= 1, for d in nanoseconds.
WithinOneTick(n, r, d) ==
    LET p == Reduce(r, Second)
        q == Reduce(d, p[2])
        num == p[1] * q[1]
        den == q[2]
    IN (n - 1) * den <= num /\ num <= (n + 1) * den

\* C9: with no backpressure and no cancellation the scheduler leaves its
\* loop having emitted within one ticket of rate * duration.
C9_RateFidelity ==
    pc = "close" => WithinOneTick(count, rate, duration)

NoGoroutineLeft ==
    /\ pc = "returned"
    /\ \A w \in Workers : wpc[w] \in {"idle", "exited"}
    /\ spc \in {"off", "done"}

\* C10: every run ends with Run returned and no worker or Sink goroutine
\* left behind.
C10_RunTerminates == <>NoGoroutineLeft

\* The Results the Sink has received so far, in order.
Received == SubSeq(pushed, 1, Len(pushed) - Len(results))

NumFailed(seq) == Cardinality({i \in 1..Len(seq) : seq[i].failed})

\* C11: between Adds sent = success + fail, each Add has counted its Result
\* once in sent and once in exactly one of success and fail, and every
\* snapshot the Sink wrote satisfies sent = success + fail.
C11_SentIsSuccessPlusFail ==
    /\ stats.sent = stats.success + stats.fail
    /\ stats.sent = Len(Received)
    /\ stats.fail = NumFailed(Received)
    /\ \A i \in 1..Len(progLines) :
          progLines[i].kind = "stats" =>
              progLines[i].sent = progLines[i].success + progLines[i].fail

C11_Witness ==
    \E i \in 1..Len(progLines) :
        /\ progLines[i].kind = "stats"
        /\ progLines[i].success >= 1
        /\ progLines[i].fail >= 1

\* C13: the results channel is closed only by the one close(results) after
\* the pool join: once it is closed Run is past that statement and every
\* started worker has exited, so none is left to send on it.
C13_ResultsClosedAfterJoin ==
    resultsClosed =>
        /\ pc \in {"return", "returned"}
        /\ \A w \in Pool : wpc[w] = "exited"

\* The cancellation path: the loop was left on ctx.Done() and a worker gave
\* up its push.
C13_Witness ==
    /\ resultsClosed
    /\ ctxDone
    /\ ~stopFired
    /\ Len(pushed) < count

\* C14: the ticket queue is closed exactly when the scheduler has left its
\* loop, on either exit path, and stays closed; with the queue closed the
\* scheduler is past every enqueue.
C14_QueueClosedAfterLoop ==
    /\ workClosed <=>
          (pc \in {"wait", "closeResults", "return"} \/ RunReturnedNil)
    /\ workClosed => pc \notin {"outer", "inner", "close"}

\* The loop was left on ctx.Done() while enqueueing.
C14_Witness ==
    /\ workClosed
    /\ pc = "wait"
    /\ ctxDone
    /\ ~stopFired
    /\ count >= 1

\* C15: with no cancellation, once the results channel is closed every
\* enqueued ticket has been dequeued and its Result pushed.
C15_DrainedOnExpiry ==
    (resultsClosed /\ ~ctxDone) =>
        /\ Len(workCh) = 0
        /\ Len(pushed) = count

C15_Witness ==
    /\ resultsClosed
    /\ ~ctxDone
    /\ stopFired
    /\ count >= 2

RECURSIVE SumOver(_, _)
SumOver(f, S) ==
    IF S = {} THEN 0
    ELSE LET x == CHOOSE y \in S : TRUE IN f[x] + SumOver(f, S \ {x})

\* Traced requests in flight: dequeued tickets whose doRequest has not
\* returned.
InFlight == SumOver(pulls, TicketIds) - SumOver(made, TicketIds)

\* C17: the requests in flight are those of the workers inside doRequest,
\* one each, and never more than the configured concurrency.
C17_InFlightBounded ==
    /\ InFlight <= concurrency
    /\ InFlight = Cardinality({w \in Workers : wpc[w] = "req"})
    /\ \A t \in TicketIds : pulls[t] - made[t] \in {0, 1}

C17_Witness ==
    /\ concurrency = 2
    /\ InFlight = 2

\* ------------------------------------------------------ StatsCollector.Add
\* sync.Map.Store in place of LoadOrStore: a later caller replaces the cell.
StoreAlways(m, key, cell) == [m EXCEPT ![key] = cell]

\* s.failMap.LoadOrStore(key, cell): one atomic step that keeps the entry
\* already present and stores the new cell only when there is none.
LoadOrStore(m, key, cell) == IF m[key] = 0 THEN [m EXCEPT ![key] = cell] ELSE m

\* A switch on r.Code / 100 that lacks its last case.
FamilyOfNoFive(code) ==
    IF code > 0
    THEN CASE code \div 100 = 2 -> "twoXX"
           [] code \div 100 = 3 -> "threeXX"
           [] code \div 100 = 4 -> "fourXX"
           [] OTHER -> "none"
    ELSE "none"

\* if r.Code > 0 { switch r.Code / 100 { case 2: ... case 5: } }: the
\* counter a code selects, "none" when no case matches.
FamilyOf(code) ==
    IF code > 0
    THEN CASE code \div 100 = 2 -> "twoXX"
           [] code \div 100 = 3 -> "threeXX"
           [] code \div 100 = 4 -> "fourXX"
           [] code \div 100 = 5 -> "fiveXX"
           [] OTHER -> "none"
    ELSE "none"

\* time.Duration.Milliseconds(): whole milliseconds, truncated.
Milliseconds(d) == d \div Millisecond

\* A Snapshot that averages over every Result sent.
SnapshotOverSent(c, h) ==
    [sent |-> c.sent, success |-> c.success, fail |-> c.fail,
     avgLat |-> IF c.success > 0 THEN <<c.totalLat, c.sent>> ELSE <<0, 1>>,
     fails |-> [g \in {k \in Taxonomy : c.failMap[k] # 0} |-> h[c.failMap[g]]],
     families |-> [twoXX |-> c.twoXX, threeXX |-> c.threeXX,
                   fourXX |-> c.fourXX, fiveXX |-> c.fiveXX]]

\* StatsCollector.Snapshot over collector c and cells h. avgLat is the
\* quotient float64(totalLat) / float64(success), kept as the pair
\* <<numerator, denominator>>; the float64 zero value is <<0, 1>>.
Snapshot(c, h) ==
    [sent |-> c.sent, success |-> c.success, fail |-> c.fail,
     avgLat |-> IF c.success > 0 THEN <<c.totalLat, c.success>> ELSE <<0, 1>>,
     fails |-> [g \in {k \in Taxonomy : c.failMap[k] # 0} |-> h[c.failMap[g]]],
     families |-> [twoXX |-> c.twoXX, threeXX |-> c.threeXX,
                   fourXX |-> c.fourXX, fiveXX |-> c.fiveXX]]

\* Callers hold their Results and have not entered Add yet.
InitAdd ==
    /\ RunnerInit
    /\ queueSize = 0
    /\ concurrency = 1
    /\ coll = NewCollector
    /\ heap = [a \in AdderIds |-> 0]
    /\ adders \in [AdderIds -> {[pc |-> "call", r |-> r, ptr |-> 0] : r \in AddResults}]
    /\ raced = FALSE
    /\ rq = IdleRequest
    /\ cli = IdleCli

\* atomic.AddInt64(&s.sent, 1), then the branch on r.Error.
AddSent(a) ==
    /\ adders[a].pc = "call"
    /\ coll' = [coll EXCEPT !.sent = @ + 1]
    /\ adders' = [adders EXCEPT ![a].pc =
                     IF adders[a].r.error # "" THEN "fail" ELSE "success"]
    /\ UNCHANGED <<runnerVars, heap, raced, rq, cli>>

\* atomic.AddInt64(&s.fail, 1)
AddFail(a) ==
    /\ adders[a].pc = "fail"
    /\ coll' = [coll EXCEPT !.fail = @ + 1]
    /\ adders' = [adders EXCEPT ![a].pc = "loadOrStore"]
    /\ UNCHANGED <<runnerVars, heap, raced, rq, cli>>

\* s.failMap.LoadOrStore(r.FailPhase, new(int64)): the caller's fresh cell
\* is cell a.
AddLoadOrStore(a) ==
    /\ adders[a].pc = "loadOrStore"
    /\ coll' = [coll EXCEPT !.failMap = LoadOrStore(@, adders[a].r.failPhase, a)]
    /\ adders' = [adders EXCEPT ![a].pc = "load"]
    /\ raced' = (raced \/ (/\ coll.failMap[adders[a].r.failPhase] = 0
                           /\ \E b \in AdderIds \ {a} :
                                /\ adders[b].pc = "loadOrStore"
                                /\ adders[b].r.failPhase = adders[a].r.failPhase))
    /\ UNCHANGED <<runnerVars, heap, rq, cli>>

\* val, _ := s.failMap.Load(r.FailPhase); ptr := val.(*int64)
AddLoad(a) ==
    /\ adders[a].pc = "load"
    /\ adders' = [adders EXCEPT ![a].ptr = coll.failMap[adders[a].r.failPhase],
                                ![a].pc = "addPtr"]
    /\ UNCHANGED <<runnerVars, coll, heap, raced, rq, cli>>

\* atomic.AddInt64(ptr, 1); return
AddPtr(a) ==
    /\ adders[a].pc = "addPtr"
    /\ heap' = [heap EXCEPT ![adders[a].ptr] = @ + 1]
    /\ adders' = [adders EXCEPT ![a].pc = "done"]
    /\ UNCHANGED <<runnerVars, coll, raced, rq, cli>>

\* atomic.AddInt64(&s.success, 1)
AddSuccess(a) ==
    /\ adders[a].pc = "success"
    /\ coll' = [coll EXCEPT !.success = @ + 1]
    /\ adders' = [adders EXCEPT ![a].pc = "lat"]
    /\ UNCHANGED <<runnerVars, heap, raced, rq, cli>>

\* atomic.AddInt64(&s.totalLat, r.Phases.Total.Milliseconds())
AddLatency(a) ==
    /\ adders[a].pc = "lat"
    /\ coll' = [coll EXCEPT !.totalLat = @ + Milliseconds(adders[a].r.phases.total)]
    /\ adders' = [adders EXCEPT ![a].pc = "family"]
    /\ UNCHANGED <<runnerVars, heap, raced, rq, cli>>

\* The per-status-family switch, then Add returns.
AddFamily(a) ==
    /\ adders[a].pc = "family"
    /\ LET f == FamilyOf(adders[a].r.code)
       IN coll' = [coll EXCEPT !.twoXX = IF f = "twoXX" THEN @ + 1 ELSE @,
                               !.threeXX = IF f = "threeXX" THEN @ + 1 ELSE @,
                               !.fourXX = IF f = "fourXX" THEN @ + 1 ELSE @,
                               !.fiveXX = IF f = "fiveXX" THEN @ + 1 ELSE @]
    /\ adders' = [adders EXCEPT ![a].pc = "done"]
    /\ UNCHANGED <<runnerVars, heap, raced, rq, cli>>

NextAdd ==
    \E a \in AdderIds :
        \/ AddSent(a)
        \/ AddFail(a)
        \/ AddLoadOrStore(a)
        \/ AddLoad(a)
        \/ AddPtr(a)
        \/ AddSuccess(a)
        \/ AddLatency(a)
        \/ AddFamily(a)

SpecAdd == InitAdd /\ [][NextAdd]_vars

\* The Add calls that have returned, and whether no call is under way.
Added == {a \in AdderIds : adders[a].pc = "done"}
Quiescent == \A a \in AdderIds : adders[a].pc \in {"call", "done"}
Failures == {a \in Added : adders[a].r.error # ""}
Successes == {a \in Added : adders[a].r.error = ""}
Tagged(g) == {a \in Failures : adders[a].r.failPhase = g}

\* C16: Add loses no update under concurrent callers. Once the calls under
\* way have returned, sent is the number of calls, fail the number of
\* Results with an error, success the number without, and every failMap
\* counter is the number of failed Results carrying its tag (a tag no
\* Result carried has no entry), so the failMap counters sum to fail.
C16_NoLostUpdate ==
    Quiescent =>
        LET snap == Snapshot(coll, heap)
        IN /\ snap.sent = Cardinality(Added)
           /\ snap.fail = Cardinality(Failures)
           /\ snap.success = Cardinality(Successes)
           /\ DOMAIN snap.fails = {g \in Taxonomy : Tagged(g) # {}}
           /\ \A g \in DOMAIN snap.fails : snap.fails[g] = Cardinality(Tagged(g))
           /\ SumOver([g \in Taxonomy |->
                         IF g \in DOMAIN snap.fails THEN snap.fails[g] ELSE 0],
                      Taxonomy) = snap.fail

\* Two callers reached the first insert of the same tag together and both
\* calls have returned.
C16_Witness ==
    /\ raced
    /\ Added = AdderIds
    /\ \E g \in Taxonomy : Cardinality(Tagged(g)) >= 2

\* C19: Snapshot reports an average latency of exactly zero while no
\* successful Result has been added, and otherwise the sum of the Total
\* milliseconds of the successful Results over their number; failed
\* Results add nothing to the sum.
C19_AverageLatency ==
    Quiescent =>
        Snapshot(coll, heap).avgLat =
            IF Successes = {}
            THEN <<0, 1>>
            ELSE << SumOver([a \in AdderIds |->
                               IF a \in Successes
                               THEN Milliseconds(adders[a].r.phases.total) ELSE 0],
                            AdderIds),
                    Cardinality(Successes) >>

\* A failed and a successful Result have both been added.
C19_Witness ==
    /\ Quiescent
    /\ Failures # {}
    /\ Successes # {}

InFamily(f) ==
    {a \in Successes : /\ adders[a].r.code \in 200..599
                       /\ f = CASE adders[a].r.code \div 100 = 2 -> "twoXX"
                                [] adders[a].r.code \div 100 = 3 -> "threeXX"
                                [] adders[a].r.code \div 100 = 4 -> "fourXX"
                                [] OTHER -> "fiveXX"}
FamilyNames == {"twoXX", "threeXX", "fourXX", "fiveXX"}

\* C20: each successful Result with a code c in 200..599 increments the one
\* family counter of c / 100 and no other, and a failed Result increments
\* none: every family counter is the number of successful Results added in
\* that family. When every Result added is a 2xx success, success = sent,
\* fail = 0 and the 2xx count is success; the four counters never sum to
\* more than success.
C20_FamilyCounters ==
    Quiescent =>
        LET snap == Snapshot(coll, heap)
        IN /\ \A f \in FamilyNames : snap.families[f] = Cardinality(InFamily(f))
           /\ SumOver(snap.families, FamilyNames) <= snap.success
           /\ (\A a \in Added : a \in InFamily("twoXX")) =>
                 /\ snap.success = snap.sent
                 /\ snap.fail = 0
                 /\ snap.families["twoXX"] = snap.success

\* A 5xx success, and a failure, have both been added.
C20_Witness ==
    /\ Quiescent
    /\ InFamily("fiveXX") # {}
    /\ Failures # {}

\* ------------------------------------------------------------- doRequest
\* The substrings classifyError searches for that a request URL can hold
\* (the URL is quoted in the message of every error client.Do returns; a
\* URL is printed percent-encoded, so it holds no marker with a space).
UrlMarkers == {"connect", "tls", "read", "EOF"}

\* What client.Do can fail with, and the status codes it can return.
ErrorKinds == {"timeout", "dns", "refused", "tls", "eof", "reset", "scheme"}
StatusCodes == {101, 200, 404, 503}

\* The searched substrings in the message of each kind of failure:
\*   dns      "dial tcp: lookup h: no such host"
\*   refused  "dial tcp a: connect: connection refused"
\*   tls      "remote error: tls: handshake failure"
\*   eof      "EOF"
\*   reset    "read tcp a->b: read: connection reset by peer"
\*   timeout  "context deadline exceeded", "dial tcp a: i/o timeout"
\*   scheme   "unsupported protocol scheme"
KindText(kind) ==
    CASE kind = "dns" -> {"no such host"}
      [] kind = "refused" -> {"connection refused", "connect"}
      [] kind = "tls" -> {"tls"}
      [] kind = "eof" -> {"EOF"}
      [] kind = "reset" -> {"read", "connect"}
      [] OTHER -> {}

\* The error value client.Do returns for a failure of this kind on a URL
\* holding these markers.
ErrorOf(kind, url) == [timeout |-> kind = "timeout", text |-> KindText(kind) \cup url]

\* classifyError with the "tls" case ahead of the "connect" case.
ClassifyErrorTlsFirst(e) ==
    CASE e.timeout -> "timeout"
      [] ~e.timeout /\ "no such host" \in e.text -> "dns"
      [] ~e.timeout /\ "no such host" \notin e.text /\ "tls" \in e.text -> "tls"
      [] OTHER -> IF "connection refused" \in e.text \/ "connect" \in e.text
                  THEN "connect"
                  ELSE IF "EOF" \in e.text \/ "read" \in e.text
                       THEN "ttfb" ELSE "other"

\* classifyError: the first matching case of the switch, in source order.
ClassifyError(e) ==
    IF e.timeout THEN "timeout"
    ELSE IF "no such host" \in e.text THEN "dns"
    ELSE IF "connection refused" \in e.text \/ "connect" \in e.text THEN "connect"
    ELSE IF "tls" \in e.text THEN "tls"
    ELSE IF "EOF" \in e.text \/ "read" \in e.text THEN "ttfb"
    ELSE "other"

\* time.Since(start) at a later event: the clock never runs backwards.
Later(t) == {t + d : d \in 0..MaxStep}

InitRequest ==
    /\ RunnerInit
    /\ queueSize = 0
    /\ concurrency = 1
    /\ coll = NewCollector
    /\ heap = [a \in AdderIds |-> 0]
    /\ adders = [a \in AdderIds |-> [pc |-> "idle", r |-> ZeroResult, ptr |-> 0]]
    /\ raced = FALSE
    /\ \E u \in SUBSET UrlMarkers : rq = [IdleRequest EXCEPT !.url = u]
    /\ cli = IdleCli

\* start := time.Now(); req := base.Clone(...); r.client.Do(req) begins.
ReqStart ==
    /\ rq.pc = "idle"
    /\ rq' = [rq EXCEPT !.pc = "conn"]
    /\ UNCHANGED <<runnerVars, aggVars, cli>>

\* DNSStart: phases.DNS = time.Since(start)
HookDNSStart ==
    /\ rq.pc = "conn"
    /\ \E t \in Later(rq.t) :
          rq' = [rq EXCEPT !.pc = "dns", !.t = t, !.phases.dns = t]
    /\ UNCHANGED <<runnerVars, aggVars, cli>>

\* DNSDone: phases.DNS = time.Since(start) - phases.DNS, on a failed
\* lookup as well.
HookDNSDone ==
    /\ rq.pc = "dns"
    /\ \E t \in Later(rq.t), ok \in BOOLEAN :
          rq' = [rq EXCEPT !.pc = IF ok THEN "resolved" ELSE "failing",
                           !.kind = IF ok THEN @ ELSE "dns",
                           !.t = t, !.phases.dns = t - @]
    /\ UNCHANGED <<runnerVars, aggVars, cli>>

\* ConnectStart: phases.Connect = time.Since(start); after the lookup, or
\* at once for a literal address.
HookConnectStart ==
    /\ rq.pc \in {"conn", "resolved"}
    /\ \E t \in Later(rq.t) :
          rq' = [rq EXCEPT !.pc = "connecting", !.t = t, !.phases.connect = t]
    /\ UNCHANGED <<runnerVars, aggVars, cli>>

\* ConnectDone: if err == nil { phases.Connect = time.Since(start) -
\* phases.Connect }; a refused connection leaves the field as it is.
HookConnectDone ==
    /\ rq.pc = "connecting"
    /\ \E t \in Later(rq.t), ok \in BOOLEAN :
          rq' = [rq EXCEPT !.pc = IF ok THEN "connected" ELSE "failing",
                           !.kind = IF ok THEN @ ELSE "refused",
                           !.t = t,
                           !.phases.connect = IF ok THEN t - @ ELSE @]
    /\ UNCHANGED <<runnerVars, aggVars, cli>>

\* TLSHandshakeStart: phases.TLS = time.Since(start)
HookTLSStart ==
    /\ rq.pc = "connected"
    /\ \E t \in Later(rq.t) :
          rq' = [rq EXCEPT !.pc = "tls", !.t = t, !.phases.tls = t]
    /\ UNCHANGED <<runnerVars, aggVars, cli>>

\* TLSHandshakeDone: phases.TLS = time.Since(start) - phases.TLS, whatever
\* the handshake's error.
HookTLSDone ==
    /\ rq.pc = "tls"
    /\ \E t \in Later(rq.t), ok \in BOOLEAN :
          rq' = [rq EXCEPT !.pc = IF ok THEN "secured" ELSE "failing",
                           !.kind = IF ok THEN @ ELSE "tls",
                           !.t = t, !.phases.tls = t - @]
    /\ UNCHANGED <<runnerVars, aggVars, cli>>

\* GotConn: reused = info.Reused. An idle pooled connection is handed out
\* before any other event; a fresh one after its connect (and handshake).
HookGotConn ==
    /\ rq.pc \in {"conn", "connected", "secured"}
    /\ \E t \in Later(rq.t) : rq' = [rq EXCEPT !.pc = "wrote", !.t = t]
    /\ UNCHANGED <<runnerVars, aggVars, cli>>

\* GotFirstResponseByte: phases.TTFB = time.Since(start)
HookFirstByte ==
    /\ rq.pc = "wrote"
    /\ \E t \in Later(rq.t) :
          rq' = [rq EXCEPT !.pc = "responding", !.t = t, !.phases.ttfb = t]
    /\ UNCHANGED <<runnerVars, aggVars, cli>>

\* The request fails with no trace event of its own: the client's timeout
\* at any point, an unsupported scheme before a connection is sought, a
\* connection closed or reset while the response is awaited.
ReqFails ==
    /\ \E t \in Later(rq.t), k \in {"timeout", "scheme", "eof", "reset"} :
          /\ k = "timeout" => rq.pc \in {"conn", "dns", "resolved", "connecting",
                                         "connected", "tls", "secured", "wrote",
                                         "responding"}
          /\ k = "scheme" => rq.pc = "conn"
          /\ k \in {"eof", "reset"} => rq.pc = "wrote"
          /\ rq' = [rq EXCEPT !.pc = "failing", !.kind = k, !.t = t]
    /\ UNCHANGED <<runnerVars, aggVars, cli>>

\* resp, err := r.client.Do(req); total := time.Since(start); the Result
\* is filled in and returned.
ReqReturn ==
    /\ rq.pc \in {"responding", "failing"}
    /\ \E t \in Later(rq.t), code \in StatusCodes :
          LET failed == rq.pc = "failing"
              e == IF failed THEN ErrorOf(rq.kind, rq.url) ELSE NoError
              ph == [rq.phases EXCEPT !.total = t]
          IN /\ ~failed \/ code = 200
             /\ rq' = [rq EXCEPT
                   !.pc = "done", !.t = t, !.e = e,
                   !.status = IF failed THEN 0 ELSE code,
                   !.res = IF failed
                           THEN [error |-> ClassifyError(e),
                                 failPhase |-> ClassifyError(e),
                                 code |-> 0, phases |-> ph]
                           ELSE [error |-> "", failPhase |-> "",
                                 code |-> code, phases |-> ph]]
    /\ UNCHANGED <<runnerVars, aggVars, cli>>

NextRequest ==
    \/ ReqStart
    \/ HookDNSStart
    \/ HookDNSDone
    \/ HookConnectStart
    \/ HookConnectDone
    \/ HookTLSStart
    \/ HookTLSDone
    \/ HookGotConn
    \/ HookFirstByte
    \/ ReqFails
    \/ ReqReturn

SpecRequest == InitRequest /\ [][NextRequest]_vars

C18_PhasesWithinTotal ==
    rq.pc = "done" =>
        LET ph == rq.res.phases
        IN /\ ph.dns >= 0 /\ ph.connect >= 0 /\ ph.tls >= 0
           /\ ph.ttfb >= 0 /\ ph.total >= 0
           /\ ph.total >= ph.dns + ph.connect + ph.tls + ph.ttfb

\* ------------------------------------------------- ticket sequence numbers
\* The tickets buffered in workCh are the last Len(workCh) numbers below
\* count, in order, and every number before them has been dequeued once:
\* the numbers enqueued so far are 0 .. count-1, each once.
Numbered ==
    /\ \A i \in 1..Len(workCh) : workCh[i] = count - Len(workCh) + i - 1
    /\ \A t \in TicketIds :
          pulls[t] = IF t < count - Len(workCh) THEN 1 ELSE 0

\* A step in which the scheduler's send on workCh succeeds: a ticket joins
\* the buffer, or is handed to a waiting worker on an unbuffered queue.
Buffered == Len(workCh') > Len(workCh)
HandedOver == workCh' = workCh /\ pulls' # pulls
Enqueues == Buffered \/ HandedOver

\* C22: the sequence numbers the scheduler enqueues are 0, 1, 2, ..., n-1
\* in that order, with no gap and no duplicate. The counter moves only in
\* the step whose send succeeds, by one, and that step enqueues the old
\* counter value; an attempt aborted by cancellation leaves the counter,
\* so the counter's final value is the number of tickets enqueued.
C22_TicketsNumbered ==
    [][ /\ Numbered'
        /\ (count' # count) <=> Enqueues
        /\ Enqueues => count' = count + 1
        /\ Buffered => workCh' = Append(workCh, count)
        /\ HandedOver => pulls' = [pulls EXCEPT ![count] = @ + 1]
        /\ (pc = "inner" /\ pc' = "close") =>
              (count' = count /\ workCh' = workCh /\ pulls' = pulls)
      ]_vars

\* The scheduler left its loop through the cancellation case after two
\* successful sends, one ticket still buffered.
C22_Witness ==
    /\ pc = "close"
    /\ ctxDone
    /\ ~stopFired
    /\ count = 2
    /\ Len(workCh) = 1

\* ------------------------------------------- runAttack: Validate, ticker
\* Values of load.rate in a configuration file, around 0 and around
\* time.Second in nanoseconds.
Rates == {-2000000000, -1, 0, 1, 50, 1000000000, 1000000001, 2000000000}

\* Duration strings in a configuration file.
DurationStrings == {"2s", "500ms", "", "10"}

\* time.ParseDuration on these strings: nanoseconds, or -1 for an error
\* (the empty string; a number without a unit).
ParseDuration(str) ==
    CASE str = "2s" -> 2 * Second
      [] str = "500ms" -> 500 * Millisecond
      [] OTHER -> -1

\* The configurations ReadConfig can return.
Configs ==
    [url : {"", "https://example.com"}, rate : Rates, concurrency : {0, 256},
     duration : DurationStrings, timeout : {"2s", "10"}]

\* Go's integer quotient a / b for a >= 0, b # 0: truncated towards zero.
Quo(a, b) == IF b > 0 THEN a \div b ELSE 0 - (a \div (0 - b))

\* Config.Validate: the first failing check's error, "nil" when all pass.
Validate(c) ==
    IF c.url = "" THEN "target.url is required"
    ELSE IF c.rate <= 0 THEN "load.rate must be > 0"
    ELSE IF c.concurrency <= 0 THEN "load.concurrency must be > 0"
    ELSE IF ParseDuration(c.duration) = -1 THEN "invalid load.duration"
    ELSE IF ParseDuration(c.timeout) = -1 THEN "invalid load.timeout"
    ELSE "nil"

\* cfg, err := config.ReadConfig(*cfgPath) has returned a configuration.
InitCli ==
    /\ RunnerInit
    /\ queueSize = 0
    /\ concurrency = 1
    /\ coll = NewCollector
    /\ heap = [a \in AdderIds |-> 0]
    /\ adders = [a \in AdderIds |-> [pc |-> "idle", r |-> ZeroResult, ptr |-> 0]]
    /\ raced = FALSE
    /\ rq = IdleRequest
    /\ \E c \in Configs : cli = [IdleCli EXCEPT !.pc = "validate", !.cfg = c]

\* if err := cfg.Validate(); err != nil { return ... }
CliValidate ==
    /\ cli.pc = "validate"
    /\ cli' = [cli EXCEPT !.err = Validate(cli.cfg),
                          !.pc = IF Validate(cli.cfg) = "nil" THEN "run"
                                 ELSE "rejected"]
    /\ UNCHANGED <<runnerVars, aggVars, rq>>

\* runner.Run returns an error before its scheduler starts (makeRequest,
\* os.Create of the output or the progress file).
CliRunFails ==
    /\ cli.pc = "run"
    /\ cli' = [cli EXCEPT !.pc = "failed", !.err = "run"]
    /\ UNCHANGED <<runnerVars, aggVars, rq>>

\* runner.Run reaches interval := time.Second / time.Duration(rate);
\* ticker := time.NewTicker(interval), which panics on an interval <= 0.
CliNewTicker ==
    /\ cli.pc = "run"
    /\ LET interval == Quo(Second, cli.cfg.rate)
       IN cli' = [cli EXCEPT !.interval = interval,
                             !.pc = IF interval <= 0 THEN "panicked"
                                    ELSE "ticking"]
    /\ UNCHANGED <<runnerVars, aggVars, rq>>

NextCli ==
    \/ CliValidate
    \/ CliRunFails
    \/ CliNewTicker

SpecCli == InitCli /\ [][NextCli]_vars

\* C21: every configuration whose rate makes the scheduler interval
\* (time.Second in nanoseconds, integer-divided by rate) zero is rejected
\* by Config.Validate, so Runner.Run never creates its ticker with a zero
\* interval for a configuration that passed validation.
C21_ZeroIntervalRejected ==
    /\ (/\ cli.pc \notin {"idle", "validate"}
        /\ cli.cfg.rate # 0
        /\ Quo(Second, cli.cfg.rate) = 0) => cli.err # "nil"
    /\ cli.pc \in {"ticking", "panicked"} => cli.interval # 0

====
